---- MODULE Spec2Model ----
(***************************************************************************)
(* AnnabanAI LLM integration: the pipeline orchestrator                    *)
(* (AnnabanLLM.process_input, src/Main.py) together with the oversight     *)
(* subsystem it drives (GovernanceModule) and the provenance recorder      *)
(* (CovenantFramework.create_provenance_record).                           *)
(*                                                                         *)
(* Each call of process_input is a trace t.  Its stages are the actions    *)
(* below, one per "Step n" block of the method; every collaborator call    *)
(* may raise, and the raise is caught by the method's try/except.          *)
(* The simulated approver thread started by the notification handler and   *)
(* an outside reviewer calling submit_decision run interleaved with the    *)
(* traces.  time.sleep gives a lower bound only, so the approver's         *)
(* sleep(2) and the gate's sleep(3) order nothing: the gate may read the   *)
(* status before or after the approver's submit_decision.                  *)
(*                                                                         *)
(* GovernanceModule and CovenantFramework are imported by Main.py; their   *)
(* stores are modelled from their documented contract: request_oversight,  *)
(* submit_decision, get_oversight_status, create_provenance_record.        *)
(*                                                                         *)
(* Spec is main(): one thread, one call of process_input at a time.        *)
(* SpecLive adds the fairness of a running call; SpecConcurrent lets the   *)
(* calls interleave; SpecRecorder leaves open whether the recorder keeps   *)
(* the stage log list it is passed or copies it.                           *)
(*                                                                         *)
(* The wallet service (BlockchainWalletService, src/blockchain_wallet.py)  *)
(* is independent of the pipeline and has its own specification,           *)
(* SpecWallet: create_wallet and transfer on one service, create_wallet on *)
(* a second service of the same network, balances held in floats.          *)
(***************************************************************************)
EXTENDS Integers, Sequences, FiniteSets, TLC

\* Number of process_input calls made on one AnnabanLLM instance.
NumTraces == 2

Traces == 1..NumTraces

VARIABLES
    pc,                \* pc[t]: the next step of trace t
    steps,             \* steps[t]: result["processing_steps"], the step names
    llm_text,          \* llm_text[t]: llm_response.text
    empathetic_output, \* empathetic_output[t]: the candidate text
    needs,             \* needs[t]: validation_results["needs_human_oversight"]
    oversight_id,      \* oversight_id[t]: id returned by request_oversight
    gate_status,       \* gate_status[t]: status read by get_oversight_status
    final_content,     \* final_content[t]
    result,            \* result[t]: the "response", "success", "error" keys
    requests,          \* governance store: request_id -> request
    approver,          \* approver[id]: the delayed_approval thread of a request
    provenance,        \* provenance store: record_id -> record
    alignment_score,   \* alignment_score[t]: validation_results["alignment_score"]
    entry_score,       \* entry_score[t]: "alignment_score" of the step 5 entry
    concurrent_callers,       \* process_input is called from several threads
    recorder_keeps_reference, \* the recorder stores the list it was passed
    wallets,           \* BlockchainWalletService.wallets: agent_id -> address
    balances,          \* BlockchainWalletService.balances: address -> balance
    ledger,            \* BlockchainWalletService.ledger
    opening_balances,  \* address -> the starting balance it was created with
    peer_wallets,      \* wallets of a second service on the same network
    last_call          \* the last transfer call that returned: its arguments

\* The validation score of a trace and its copy in the stage log.
score_vars == <<alignment_score, entry_score>>
\* How process_input is called, and what the recorder does with its argument.
env_vars == <<concurrent_callers, recorder_keeps_reference>>
\* The state of the wallet service (src/blockchain_wallet.py).
wallet_vars == <<wallets, balances, ledger, opening_balances, peer_wallets,
                 last_call>>
\* What no step of process_input touches.
outside_vars == <<env_vars, wallet_vars>>

vars == <<pc, steps, llm_text, empathetic_output, needs,
          oversight_id, gate_status, final_content, result, requests,
          approver, provenance, score_vars, outside_vars>>

\* config["log_interactions"] of the default configuration (_load_config).
log_interactions == TRUE

\* A dictionary key or a local that was never set.
Unset == "unset"

\* Texts are pairs <<what, trace>>; trace 0 marks a text no trace produced.
\* NoneText is Python's None where a string is optional, EmptyText is "".
NoneText == <<"None", 0>>
EmptyText == <<"", 0>>
EditedText == <<"edited by the reviewer", 0>>
UnsetText == <<Unset, 0>>

\* The fixed text of the rejected branch of the gate (line 217).
Refusal == <<"I need to reconsider my response to better align with our covenant principles.", 0>>

\* Text produced by the generator and by the output enhancer for trace t.
LLMTexts(t) == {<<"raw", t>>}
EnhancedTexts(t) == {<<"enhanced", t>>}

\* Python's None where an OversightDecision is optional.
NoDecision == [kind |-> "None", modified_content |-> NoneText, resolver |-> "None"]

\* Arguments of submit_decision.  In this repository "approve" is what the
\* simulated approver thread submits; the outside reviewer is the one who
\* rejects or modifies.
DecisionKinds == {"approve", "modify", "reject"}
ModifiedContents == {NoneText, EmptyText, EditedText}
ReviewerInputs ==
    {<<"reject", NoneText>>} \cup {<<"modify", c>> : c \in ModifiedContents}
\* Ids a reviewer may name on store reqs: those of the stored requests, and
\* one that is not allocated.
ReviewerIds(reqs) == 1..(Len(reqs) + 1)

----------------------------------------------------------------------------
(* Python truthiness of an optional string: None and "" are falsy.         *)
Truthy(s) == s # NoneText /\ s # EmptyText

----------------------------------------------------------------------------
(* The oversight subsystem (GovernanceModule).                             *)

StatusOf(kind) ==
    CASE kind = "approve" -> "approved"
      [] kind = "modify"  -> "modified"
      [] kind = "reject"  -> "rejected"

\* Outcome of submit_decision(request_id, kind, modified_content) on store reqs.
submit_outcome(reqs, id, kind, content) ==
    IF id \notin DOMAIN reqs THEN "NotFoundError"
    ELSE IF reqs[id].status # "pending" THEN "InvalidStateError"
    ELSE IF kind = "modify" /\ content = NoneText THEN "ValidationError"
    ELSE "ok"

\* The store after submit_decision: a failed call changes nothing.
submit_decision(reqs, id, kind, content, who) ==
    IF submit_outcome(reqs, id, kind, content) = "ok"
    THEN [reqs EXCEPT ![id].status = StatusOf(kind),
                      ![id].decisions = Append(@,
                          [kind |-> kind, modified_content |-> content,
                           resolver |-> who])]
    ELSE reqs

\* request_oversight stores a PENDING request under a fresh id.
request_oversight(reqs, content, t) ==
    Append(reqs, [status |-> "pending", content |-> content, trace |-> t,
                  decisions |-> <<>>])

\* get_oversight_status: a non-blocking read of (status, decision | None).
get_oversight_status(reqs, id) ==
    [status |-> reqs[id].status,
     decision |-> IF reqs[id].decisions = <<>> THEN NoDecision
                  ELSE reqs[id].decisions[Len(reqs[id].decisions)]]

----------------------------------------------------------------------------
(* The resolution mapping of the gate, process_input lines 211-217.        *)
resolve_final_content(candidate, status, decision) ==
    IF status = "approved" THEN candidate
    ELSE IF status = "modified" /\ decision # NoDecision
            /\ Truthy(decision.modified_content)
         THEN decision.modified_content
    ELSE IF status = "rejected" THEN Refusal
    ELSE candidate

----------------------------------------------------------------------------
\* A fresh AnnabanLLM: no call of process_input has started.
TracesInit ==
    /\ pc = [t \in Traces |-> "call"]
    /\ steps = [t \in Traces |-> <<>>]
    /\ llm_text = [t \in Traces |-> UnsetText]
    /\ empathetic_output = [t \in Traces |-> UnsetText]
    /\ needs = [t \in Traces |-> Unset]
    /\ oversight_id = [t \in Traces |-> 0]
    /\ gate_status = [t \in Traces |-> Unset]
    /\ final_content = [t \in Traces |-> UnsetText]
    /\ result = [t \in Traces |->
                    [response |-> UnsetText, success |-> Unset, error |-> Unset]]
    /\ alignment_score = [t \in Traces |-> Unset]
    /\ entry_score = [t \in Traces |-> Unset]
    /\ requests = <<>>
    /\ approver = <<>>
    /\ provenance = <<>>

\* A fresh BlockchainWalletService (__init__, lines 48-53), and a second one.
WalletInit ==
    /\ wallets = <<>>
    /\ balances = <<>>
    /\ ledger = <<>>
    /\ opening_balances = <<>>
    /\ peer_wallets = <<>>
    /\ last_call = [op |-> "none"]

(* main(): one thread calls process_input.  The recorder is the documented
   one, whose records are not changed once created.                         *)
Init ==
    /\ TracesInit
    /\ WalletInit
    /\ concurrent_callers = FALSE
    /\ recorder_keeps_reference = FALSE

\* The variables only the stores own.
store_vars == <<requests, approver, provenance>>
\* The locals of a trace that a step may leave alone.
local_vars == <<llm_text, empathetic_output, needs, oversight_id, gate_status,
                final_content, score_vars>>

\* A handler that lets the exception through to the caller of process_input.
except_handler_reraises(t, e) ==
    /\ result' = result
    /\ pc' = [pc EXCEPT ![t] = "raised"]

\* A handler that records the error and lets the run go on with its stage.
except_handler_continues(t, e) ==
    /\ result' = [result EXCEPT ![t].error = e, ![t].success = "False"]
    /\ pc' = pc

(* except Exception as e: result["error"] = str(e); result["success"] = False;
   then return result.                                                      *)
except_handler(t, e) ==
    /\ result' = [result EXCEPT ![t].error = e, ![t].success = "False"]
    /\ pc' = [pc EXCEPT ![t] = "returned"]

\* A step of trace t that appends entry and moves on to the step next.
advance(t, entry, next) ==
    /\ steps' = [steps EXCEPT ![t] = Append(@, entry)]
    /\ pc' = [pc EXCEPT ![t] = next]
    /\ result' = result

\* Line 225: step 7 runs only if config["log_interactions"] is true.
after_gate == IF log_interactions THEN "memory_storage" ELSE "provenance_record"

\* A gate that escalates every response, whatever validation said.
gate_entry_always(n) == "human_oversight_request"

\* Line 195: the gate is entered only if validation asked for oversight.
gate_entry(n) == IF n = "True" THEN "human_oversight_request" ELSE after_gate

(* main(): the interactive loop calls process_input for one input at a time,
   the next call only after the previous one has returned.  Callers on
   several threads do not wait for one another.                             *)
main_calls(t) ==
    /\ pc[t] = "call"
    /\ concurrent_callers \/ \A u \in Traces : u < t => pc[u] = "returned"

(* Step 1: empathy_engine.process_input.                                   *)
empathy_analysis(t) ==
    /\ main_calls(t)
    /\ \/ advance(t, "empathy_analysis", "prompt_generation")
       \/ except_handler(t, "empathy_engine.process_input") /\ steps' = steps
    /\ UNCHANGED <<outside_vars, local_vars, store_vars>>

(* Step 2: generate_covenant_prompt, generate_empathetic_prompt.           *)
prompt_generation(t) ==
    /\ pc[t] = "prompt_generation"
    /\ \/ advance(t, "prompt_generation", "llm_generation")
       \/ except_handler(t, "generate_covenant_prompt") /\ steps' = steps
       \/ except_handler(t, "generate_empathetic_prompt") /\ steps' = steps
    /\ UNCHANGED <<outside_vars, local_vars, store_vars>>

(* Step 3: llm_interface.generate_text.                                    *)
llm_generation(t) ==
    /\ pc[t] = "llm_generation"
    /\ \/ /\ advance(t, "llm_generation", "empathy_enhancement")
          /\ \E text \in LLMTexts(t) : llm_text' = [llm_text EXCEPT ![t] = text]
       \/ /\ except_handler(t, "generate_text")
          /\ UNCHANGED <<steps, llm_text>>
    /\ UNCHANGED <<outside_vars, empathetic_output, needs, oversight_id,
                   gate_status, final_content, score_vars, store_vars>>

(* Step 4: empathy_engine.process_output.                                  *)
empathy_enhancement(t) ==
    /\ pc[t] = "empathy_enhancement"
    /\ \/ /\ advance(t, "empathy_enhancement", "covenant_validation")
          /\ \E text \in EnhancedTexts(t) :
                empathetic_output' = [empathetic_output EXCEPT ![t] = text]
       \/ /\ except_handler(t, "process_output")
          /\ UNCHANGED <<steps, empathetic_output>>
    /\ UNCHANGED <<outside_vars, llm_text, needs, oversight_id,
                   gate_status, final_content, score_vars, store_vars>>

\* The alignment scores validate_response returns, by needs_human_oversight.
AlignmentScores(n) == IF n = "True" THEN {"0.41"} ELSE {"0.92", "1.0"}

\* A step 5 entry that records a fixed score instead of the validator's.
validation_entry_score_fixed(score) == "1.0"

\* Line 190: the step 5 entry's "alignment_score" is the validator's.
validation_entry_score(score) == score

(* Step 5: covenant_framework.validate_response; then line 194,
   final_content = empathetic_output, and the test of line 195.            *)
covenant_validation(t) ==
    /\ pc[t] = "covenant_validation"
    /\ \/ \E n \in {"True", "False"} : \E score \in AlignmentScores(n) :
            /\ needs' = [needs EXCEPT ![t] = n]
            /\ alignment_score' = [alignment_score EXCEPT ![t] = score]
            /\ entry_score' =
                  [entry_score EXCEPT ![t] = validation_entry_score(score)]
            /\ final_content' =
                  [final_content EXCEPT ![t] = empathetic_output[t]]
            /\ advance(t, "covenant_validation", gate_entry(n))
       \/ /\ except_handler(t, "validate_response")
          /\ UNCHANGED <<steps, needs, final_content, score_vars>>
    /\ UNCHANGED <<outside_vars, llm_text, empathetic_output,
                   oversight_id, gate_status, store_vars>>

(* _handle_oversight_notification: starts the delayed_approval thread of
   the new request.                                                         *)
handle_oversight_notification(threads) == Append(threads, "sleeping")

(* Step 6, lines 195-204: request_oversight, which notifies the registered
   callback before it returns, then the human_oversight_request entry.      *)
human_oversight_request(t) ==
    /\ pc[t] = "human_oversight_request"
    /\ \/ /\ requests' = request_oversight(requests, empathetic_output[t], t)
          /\ approver' = handle_oversight_notification(approver)
          /\ oversight_id' = [oversight_id EXCEPT ![t] = Len(requests')]
          /\ advance(t, "human_oversight_request", "human_oversight_result")
       \/ /\ except_handler(t, "request_oversight")
          /\ UNCHANGED <<steps, requests, approver, oversight_id>>
    /\ UNCHANGED <<outside_vars, llm_text, empathetic_output, needs,
                   gate_status, final_content, score_vars, provenance>>

\* A gate that asks for the status of the newest request of the store.
gate_request_id_newest(t) == Len(requests)

\* Line 211: the gate asks for the status of the id its own call of
\* request_oversight returned (line 196).
gate_request_id(t) == oversight_id[t]

\* A gate that waits until the request is no longer pending.
gate_wait_until_resolved(status) == status # "pending"

\* Line 209: time.sleep(3) returns when the time is over, whatever the
\* status of the request is by then.
gate_wait_over(status) == TRUE

(* Step 6, lines 209-222: after time.sleep(3), one read of the status, the
   resolution mapping and the human_oversight_result entry.                 *)
human_oversight_result(t) ==
    /\ pc[t] = "human_oversight_result"
    /\ gate_wait_over(requests[oversight_id[t]].status)
    /\ \/ LET r == get_oversight_status(requests, gate_request_id(t)) IN
            /\ gate_status' = [gate_status EXCEPT ![t] = r.status]
            /\ final_content' = [final_content EXCEPT ![t] =
                  resolve_final_content(empathetic_output[t], r.status,
                                        r.decision)]
            /\ advance(t, "human_oversight_result", after_gate)
       \/ /\ except_handler(t, "get_oversight_status")
          /\ UNCHANGED <<steps, gate_status, final_content>>
    /\ UNCHANGED <<outside_vars, llm_text, empathetic_output, needs,
                   oversight_id, score_vars, store_vars>>

\* A step 7 that stores the interaction but appends no stage entry.
memory_storage_no_entry(t) ==
    /\ pc[t] = "memory_storage"
    /\ \/ pc' = [pc EXCEPT ![t] = "provenance_record"] /\ result' = result
       \/ except_handler(t, "log_interaction")
    /\ UNCHANGED <<outside_vars, steps, local_vars, store_vars>>

(* Step 7, lines 225-234: memory_vault.log_interaction.                     *)
memory_storage(t) ==
    /\ pc[t] = "memory_storage"
    /\ \/ advance(t, "memory_storage", "provenance_record")
       \/ except_handler(t, "log_interaction") /\ steps' = steps
    /\ UNCHANGED <<outside_vars, local_vars, store_vars>>

\* The recorder is passed no score of its own: it copies the alignment score
\* of the validation stage from the stage log it is passed.
stage_log_alignment_score(t) == entry_score[t]

\* The record create_provenance_record stores for trace t.
create_provenance_record(t) ==
    [trace |-> t,
     covenant_alignment_score |-> stage_log_alignment_score(t),
     raw_response |-> llm_text[t],
     final_response |-> final_content[t],
     processing_steps |-> steps[t],
     human_oversight |->
        [required |-> needs[t],
         reviewer |-> IF needs[t] = "True" THEN "Jacob Kinnaird" ELSE "None"]]

(* The record of trace t as the store holds it once the run has appended
   its provenance_record entry (line 248) to the list it had passed to the
   recorder: a record that holds the list object itself shows the entry, a
   record that holds a copy does not.                                       *)
stored_record(record, log) ==
    IF recorder_keeps_reference
    THEN [record EXCEPT !.processing_steps = log]
    ELSE record

(* Step 8, lines 237-255: create_provenance_record, which is passed
   result["processing_steps"], the list object of the stage log; then the
   provenance_record entry is appended to that list, and result["response"]
   and result["success"] = True are set.                                    *)
provenance_record(t) ==
    /\ pc[t] = "provenance_record"
    /\ \/ /\ steps' = [steps EXCEPT ![t] = Append(@, "provenance_record")]
          /\ provenance' =
                Append(provenance,
                       stored_record(create_provenance_record(t), steps'[t]))
          /\ result' = [result EXCEPT ![t].response = final_content[t],
                                      ![t].success = "True"]
          /\ pc' = [pc EXCEPT ![t] = "returned"]
       \/ /\ except_handler(t, "create_provenance_record")
          /\ UNCHANGED <<steps, provenance>>
    /\ UNCHANGED <<outside_vars, local_vars, requests, approver>>

\* An approver that writes its approval into the request without going
\* through submit_decision's checks.
delayed_approval_forced(id) ==
    /\ approver[id] = "sleeping"
    /\ requests' = [requests EXCEPT
          ![id].status = "approved",
          ![id].decisions = Append(@,
              [kind |-> "approve", modified_content |-> NoneText,
               resolver |-> "simulation"])]
    /\ approver' = [approver EXCEPT ![id] = "ok"]
    /\ UNCHANGED <<outside_vars, pc, steps, local_vars, result,
                   provenance>>

(* delayed_approval, lines 105-112: after time.sleep(2) the thread submits
   "approve"; an exception of submit_decision ends the thread.              *)
delayed_approval(id) ==
    /\ approver[id] = "sleeping"
    /\ requests' = submit_decision(requests, id, "approve", NoneText,
                                   "simulation")
    /\ approver' = [approver EXCEPT ![id] =
                       submit_outcome(requests, id, "approve", NoneText)]
    /\ UNCHANGED <<outside_vars, pc, steps, local_vars, result,
                   provenance>>

(* A reviewer outside the pipeline calls submit_decision.                   *)
reviewer_submit(id, kind, content) ==
    /\ requests' = submit_decision(requests, id, kind, content, "reviewer")
    /\ UNCHANGED <<outside_vars, pc, steps, local_vars, result,
                   approver, provenance>>

(* get_provenance, lines 297-321: the fields of the stored record.          *)
get_provenance(record_id) ==
    [raw_response |-> provenance[record_id].raw_response,
     final_response |-> provenance[record_id].final_response,
     processing_steps |-> provenance[record_id].processing_steps,
     human_oversight |-> provenance[record_id].human_oversight,
     covenant_alignment_score |->
        provenance[record_id].covenant_alignment_score]

Next ==
    \/ \E t \in Traces : empathy_analysis(t)
    \/ \E t \in Traces : prompt_generation(t)
    \/ \E t \in Traces : llm_generation(t)
    \/ \E t \in Traces : empathy_enhancement(t)
    \/ \E t \in Traces : covenant_validation(t)
    \/ \E t \in Traces : human_oversight_request(t)
    \/ \E t \in Traces : human_oversight_result(t)
    \/ \E t \in Traces : memory_storage(t)
    \/ \E t \in Traces : provenance_record(t)
    \/ \E id \in DOMAIN approver : delayed_approval(id)
    \/ \E id \in ReviewerIds(requests), in \in ReviewerInputs :
          reviewer_submit(id, in[1], in[2])

Spec == Init /\ [][Next]_vars

(* The steps of a call of process_input that has started.  The thread that
   runs them is scheduled and its sleep ends, so a step that stays possible is
   taken.  Nothing makes the user type an input, the approver thread reach its
   submit_decision before the process ends, or a reviewer decide.           *)
process_input(t) ==
    \/ prompt_generation(t)
    \/ llm_generation(t)
    \/ empathy_enhancement(t)
    \/ covenant_validation(t)
    \/ human_oversight_request(t)
    \/ human_oversight_result(t)
    \/ memory_storage(t)
    \/ provenance_record(t)

(* The same program with a recorder about which nothing is assumed: it may
   store the processing_steps list it is passed, or a copy of it.           *)
InitRecorder ==
    /\ TracesInit
    /\ WalletInit
    /\ concurrent_callers = FALSE
    /\ recorder_keeps_reference \in BOOLEAN

SpecRecorder == InitRecorder /\ [][Next]_vars

SpecLive == Spec /\ \A t \in Traces : WF_vars(process_input(t))

(* process_input called from several threads on one AnnabanLLM instance:
   the runs interleave step by step.                                        *)
InitConcurrent ==
    /\ TracesInit
    /\ WalletInit
    /\ concurrent_callers = TRUE
    /\ recorder_keeps_reference = FALSE

SpecConcurrent == InitConcurrent /\ [][Next]_vars

----------------------------------------------------------------------------
(* The wallet service, src/blockchain_wallet.py.                            *)

\* Everything process_input and the oversight threads own.
pipeline_vars == <<pc, steps, llm_text, empathetic_output, needs,
                   oversight_id, gate_status, final_content, result, requests,
                   approver, provenance, score_vars, env_vars>>

\* The significant bits of a float.  Python's float has 53; the model's
\* floats are scaled down so that rounding shows at small balances.
MantissaBits == 3
\* Successful transfers made on one service.
MaxTransfers == 3

\* self.network of both services (the default of __init__).
network == "annaban-testnet"
Agents == {"agent-a", "agent-b"}
\* The agent a second service creates a wallet for.
PeerAgents == {"agent-a"}
\* Values secrets.token_hex(16) may return.
TokenHexes == {"3f", "c4"}

\* Line 60: the seed f"{agent_id}:{token}:{network}", one string.
address_seed(agent_id, token, net) == agent_id \o ":" \o token \o ":" \o net

\* The first 40 hex digits of sha256(seed): a function of the seed, taken
\* to give different digests for different seeds.
sha256_hexdigest40(seed) == <<"sha256", seed>>

(* Lines 60-61: "0x" + sha256(address_seed).hexdigest()[:40].               *)
address_of(agent_id, token, net) ==
    <<"0x", sha256_hexdigest40(address_seed(agent_id, token, net))>>

Addresses == {address_of(a, k, network) : a \in Agents, k \in TokenHexes}
\* address = None of list_transactions.
NoAddress == <<"None", <<"", "">>>>

(* Floats.  A balance or an amount is a whole number of units held in a
   binary float of MantissaBits significant bits; a result that needs more
   bits is rounded to the nearest float, ties to the even one.              *)
RECURSIVE ulp_from(_, _)
ulp_from(x, u) == IF x < (2 ^ MantissaBits) * u THEN u ELSE ulp_from(x, 2 * u)

round_magnitude(x) ==
    LET u == ulp_from(x, 1)
        q == x \div u
        r == x % u
    IN  IF 2 * r < u THEN q * u
        ELSE IF 2 * r > u THEN (q + 1) * u
        ELSE IF q % 2 = 0 THEN q * u
        ELSE (q + 1) * u

float_round(x) == IF x < 0 THEN 0 - round_magnitude(0 - x) ELSE round_magnitude(x)

\* x - y and x + y of two floats.
float_sub(x, y) == float_round(x - y)
float_add(x, y) == float_round(x + y)

\* The values passed as amount, and what float(amount) makes of them.
Number(n) == [kind |-> "number", value |-> n]
NaN == [kind |-> "nan", value |-> 0]
Infinity == [kind |-> "inf", value |-> 0]
Unparsable == [kind |-> "text", value |-> 0]
NoneAmount == [kind |-> "None", value |-> 0]
NumericText(n) == [kind |-> "numeric text", value |-> n]
AmountInputs ==
    {Number(n) : n \in {-1, 0, 1}}
    \cup {NaN, Infinity, Unparsable, NoneAmount, NumericText(3)}
StartingBalances == {-1, 0, 10}

(* float(amount), lines 85-88: a number or a numeric text gives its float,
   nan and inf give themselves, anything else raises TypeError or ValueError,
   which line 87 catches.                                                   *)
to_float(amount) ==
    CASE amount.kind \in {"number", "numeric text"} ->
            Number(float_round(amount.value))
      [] amount.kind \in {"nan", "inf"} -> amount
      [] OTHER -> [kind |-> "raised", value |-> 0]

\* A funds test that lets every transfer through.
insufficient_funds_never(balance, amount_value) == FALSE

\* Line 99: self.balances[sender_address] < amount_value.
insufficient_funds(balance, amount_value) == balance < amount_value

(* The checks of transfer, lines 85-100, in the order of the code: "ok", or
   the message of the ValueError raised.                                    *)
transfer_outcome(bal, sender, recipient, amount) ==
    LET v == to_float(amount) IN
    IF v.kind # "number" THEN "Transfer amount must be a finite number"
    ELSE IF v.value <= 0 THEN "Transfer amount must be positive"
    ELSE IF sender \notin DOMAIN bal THEN "Unknown sender address"
    ELSE IF recipient \notin DOMAIN bal THEN "Unknown recipient address"
    ELSE IF insufficient_funds(bal[sender], v.value) THEN "Insufficient funds"
    ELSE "ok"

\* Lines 102-103: the two updates, one after the other.
debit_credit(bal, sender, recipient, amount_value) ==
    LET debited == [bal EXCEPT ![sender] = float_sub(@, amount_value)]
    IN  [debited EXCEPT ![recipient] = float_add(@, amount_value)]

\* A transfer that debits the sender before it looks at the recipient.
transfer_balances_debit_first(bal, sender, recipient, amount) ==
    LET v == to_float(amount) IN
    IF v.kind = "number" /\ v.value > 0 /\ sender \in DOMAIN bal
    THEN IF recipient \in DOMAIN bal
         THEN debit_credit(bal, sender, recipient, v.value)
         ELSE [bal EXCEPT ![sender] = float_sub(@, v.value)]
    ELSE bal

\* self.balances after transfer(sender, recipient, amount), lines 85-103.
transfer_balances(bal, sender, recipient, amount) ==
    IF transfer_outcome(bal, sender, recipient, amount) = "ok"
    THEN debit_credit(bal, sender, recipient, to_float(amount).value)
    ELSE bal

\* The WalletTransaction of lines 110-117.
WalletTransaction(sender, recipient, amount_value) ==
    [sender_address |-> sender, recipient_address |-> recipient,
     amount |-> amount_value]

\* A listing that looks at the sender only.
list_transactions_sent_only(led, address) ==
    IF address = NoAddress THEN led
    ELSE SelectSeq(led, LAMBDA tx : tx.sender_address = address)

(* list_transactions, lines 121-130.                                        *)
list_transactions(led, address) ==
    IF address = NoAddress THEN led
    ELSE SelectSeq(led, LAMBDA tx : tx.sender_address = address
                                    \/ tx.recipient_address = address)

\* dict[key] = value.
set_item(dict, key, value) ==
    [k \in DOMAIN dict \cup {key} |-> IF k = key THEN value ELSE dict[k]]

\* A service that never finds an existing wallet.
has_wallet_never(agent_id) == FALSE

\* Line 57: agent_id in self.wallets.
has_wallet(agent_id) == agent_id \in DOMAIN wallets

(* create_wallet, lines 55-66.                                              *)
create_wallet(agent_id, starting_balance) ==
    /\ \/ /\ has_wallet(agent_id)
          /\ UNCHANGED <<wallets, balances, opening_balances>>
       \/ /\ ~has_wallet(agent_id)
          /\ \E token \in TokenHexes :
                LET address == address_of(agent_id, token, network) IN
                /\ wallets' = set_item(wallets, agent_id, address)
                /\ balances' =
                      set_item(balances, address, float_round(starting_balance))
                /\ opening_balances' =
                      set_item(opening_balances, address,
                               float_round(starting_balance))
    /\ UNCHANGED <<pipeline_vars, ledger, peer_wallets, last_call>>

(* create_wallet called on a second service of the same network.            *)
peer_create_wallet(agent_id) ==
    /\ agent_id \notin DOMAIN peer_wallets
    /\ \E token \in TokenHexes :
          peer_wallets' = set_item(peer_wallets, agent_id,
                                   address_of(agent_id, token, network))
    /\ UNCHANGED <<pipeline_vars, wallets, balances, ledger, opening_balances,
                   last_call>>

(* transfer, lines 76-119.                                                  *)
transfer(sender, recipient, amount) ==
    /\ Len(ledger) < MaxTransfers
    /\ balances' = transfer_balances(balances, sender, recipient, amount)
    /\ IF transfer_outcome(balances, sender, recipient, amount) = "ok"
       THEN /\ ledger' = Append(ledger,
                  WalletTransaction(sender, recipient, to_float(amount).value))
            /\ last_call' = [op |-> "transfer", sender |-> sender,
                             recipient |-> recipient, amount |-> amount]
       ELSE UNCHANGED <<ledger, last_call>>
    /\ UNCHANGED <<pipeline_vars, wallets, opening_balances, peer_wallets>>

WalletNext ==
    \/ \E a \in Agents, b \in StartingBalances : create_wallet(a, b)
    \/ \E a \in PeerAgents : peer_create_wallet(a)
    \/ \E s, r \in Addresses, amount \in AmountInputs : transfer(s, r, amount)

SpecWallet == Init /\ [][WalletNext]_vars

----------------------------------------------------------------------------
(* Properties.                                                              *)

\* The requests trace t created, and the provenance records made for it.
requests_of(t) == {i \in DOMAIN requests : requests[i].trace = t}
records_of(t) == {r \in DOMAIN provenance : provenance[r].trace = t}

returned(t) == pc[t] = "returned"
succeeded(t) == returned(t) /\ result[t].success = "True"

\* C1: fail-closed gate.  A run whose gate read the request while it was
\* still pending, and that returned a response, returned the fixed refusal
\* text and not the unreviewed candidate text.
C1_FailClosed ==
    \A t \in Traces :
        succeeded(t) /\ gate_status[t] = "pending" =>
            /\ result[t].response = Refusal
            /\ result[t].response # empathetic_output[t]

\* C2: a run whose validation did not ask for oversight never calls
\* request_oversight (no request of the store is its own, and it holds no
\* oversight id), keeps the candidate text as its final content, and returns
\* the candidate text as its response.
C2_PassThrough ==
    \A t \in Traces :
        needs[t] = "False" =>
            /\ requests_of(t) = {}
            /\ oversight_id[t] = 0
            /\ final_content[t] = empathetic_output[t]
            /\ succeeded(t) => result[t].response = empathetic_output[t]

\* C2 witness: a run without oversight has returned its response while the
\* store holds a request of another run.
C2_Witness ==
    \E t \in Traces :
        /\ needs[t] = "False"
        /\ succeeded(t)
        /\ result[t].response = <<"enhanced", t>>
        /\ requests # <<>>

\* The decision stored for the request of trace t.
stored_decision(t) == requests[oversight_id[t]].decisions[1]

\* C3: resolution mapping.  When the gate read a resolved status, the final
\* content is the candidate text for approved, the fixed refusal for
\* rejected, and for modified the decision's modified content, whatever it
\* is (the empty string included), the candidate text only when it is absent.
C3_ResolutionMapping ==
    \A t \in Traces :
        /\ gate_status[t] = "approved" =>
              final_content[t] = empathetic_output[t]
        /\ gate_status[t] = "rejected" => final_content[t] = Refusal
        /\ gate_status[t] = "modified" =>
              final_content[t] =
                 IF stored_decision(t).modified_content = NoneText
                 THEN empathetic_output[t]
                 ELSE stored_decision(t).modified_content

\* C4: a run whose validation asked for oversight has, when it returns,
\* created exactly one oversight request and exactly one provenance record
\* with human_oversight.required true; and a record says required exactly
\* when a request was created for its trace.
C4_OneRequestOneRecord ==
    /\ \A t \in Traces :
          returned(t) /\ needs[t] = "True" =>
              /\ Cardinality(requests_of(t)) = 1
              /\ Cardinality({r \in records_of(t) :
                    provenance[r].human_oversight.required = "True"}) = 1
    /\ \A r \in DOMAIN provenance :
          provenance[r].human_oversight.required = "True"
              <=> requests_of(provenance[r].trace) # {}

\* C5: every run that has returned, with success true or false, has created
\* exactly one provenance record.
C5_ProvenanceMandatory ==
    \A t \in Traces : returned(t) => Cardinality(records_of(t)) = 1

\* C6: a run whose log_interaction call raised still has its provenance
\* record and returns success true with the final content as its response.
C6_MemoryFailureNonFatal ==
    \A t \in Traces :
        returned(t) /\ result[t].error = "log_interaction" =>
            /\ Cardinality(records_of(t)) = 1
            /\ result[t].success = "True"
            /\ result[t].response = final_content[t]

\* The collaborator calls of process_input that may raise.
CollaboratorCalls ==
    {"empathy_engine.process_input", "generate_covenant_prompt",
     "generate_empathetic_prompt", "generate_text", "process_output",
     "validate_response", "request_oversight", "get_oversight_status",
     "log_interaction", "create_provenance_record"}

\* C7: process_input never raises to its caller.  No run ends with the
\* exception passed on; a run that returned either succeeded, with its
\* response and no error, or carries success false and the error of the
\* collaborator call that raised.
C7_NeverRaises ==
    \A t \in Traces :
        /\ pc[t] # "raised"
        /\ returned(t) =>
              \/ /\ result[t].success = "True"
                 /\ result[t].error = Unset
                 /\ result[t].response = final_content[t]
              \/ /\ result[t].success = "False"
                 /\ result[t].error \in CollaboratorCalls
                 /\ result[t].response = UnsetText

\* C7 witness: one run returned after get_oversight_status raised and a
\* later one after create_provenance_record raised.
C7_Witness ==
    \E t, u \in Traces :
        /\ returned(t) /\ result[t].error = "get_oversight_status"
        /\ returned(u) /\ result[u].error = "create_provenance_record"
        /\ result[t].success = "False" /\ result[u].success = "False"

\* The entries of the five stages before the gate.
FirstFive ==
    <<"empathy_analysis", "prompt_generation", "llm_generation",
      "empathy_enhancement", "covenant_validation">>

\* C8 as stated: a successful run without oversight and with memory logging
\* enabled has exactly 8 stage entries.
C8_EightEntries ==
    \A t \in Traces :
        succeeded(t) /\ needs[t] = "False" /\ log_interactions =>
            Len(steps[t]) = 8

\* C8 amended: every stage but the gate appends exactly one entry; the gate
\* appends none when oversight is not needed and two when it is.  So a
\* successful run without oversight and with memory logging enabled has
\* exactly 7 entries, in stage order, and one with oversight has 9.
C8_StageEntries ==
    \A t \in Traces :
        succeeded(t) =>
            /\ steps[t] =
                  FirstFive
                  \o (IF needs[t] = "True"
                      THEN <<"human_oversight_request", "human_oversight_result">>
                      ELSE <<>>)
                  \o (IF log_interactions THEN <<"memory_storage">> ELSE <<>>)
                  \o <<"provenance_record">>
            /\ needs[t] = "False" /\ log_interactions => Len(steps[t]) = 7

\* C8 witness: a successful run without oversight, memory logging enabled,
\* beside a successful run with oversight.
C8_Witness ==
    \E t, u \in Traces :
        /\ log_interactions
        /\ succeeded(t) /\ needs[t] = "False" /\ Len(steps[t]) = 7
        /\ succeeded(u) /\ needs[u] = "True" /\ Len(steps[u]) = 9

\* The state part of C9: every request has at most one decision, none while
\* pending; on the store of every reachable state submit_decision fails with
\* NotFoundError on an unknown id and with InvalidStateError on a request
\* that is not pending, and a failed submit_decision leaves the store as it
\* was; an approver thread that lost the race ended with InvalidStateError
\* and the reviewer's decision is the stored one.
C9_Resolved ==
    /\ \A id \in DOMAIN requests :
          /\ Len(requests[id].decisions) <= 1
          /\ requests[id].status = "pending" <=> requests[id].decisions = <<>>
          /\ requests[id].status # "pending" =>
                requests[id].status = StatusOf(requests[id].decisions[1].kind)
    /\ \A id \in ReviewerIds(requests), kind \in DecisionKinds,
          content \in ModifiedContents :
          LET outcome == submit_outcome(requests, id, kind, content) IN
            /\ id \notin DOMAIN requests => outcome = "NotFoundError"
            /\ id \in DOMAIN requests /\ requests[id].status # "pending" =>
                  outcome = "InvalidStateError"
            /\ outcome # "ok" =>
                  submit_decision(requests, id, kind, content, "reviewer")
                     = requests
    /\ \A id \in DOMAIN approver :
          /\ approver[id] = "InvalidStateError" =>
                /\ Len(requests[id].decisions) = 1
                /\ requests[id].decisions[1].resolver = "reviewer"
          /\ approver[id] = "ok" =>
                /\ requests[id].status = "approved"
                /\ requests[id].decisions[1].resolver = "simulation"

\* The step part of C9: a step changes a stored request only while it is
\* pending, and only by resolving it with its one decision; a thread that
\* ends with an error has changed no request.
C9_Step ==
    /\ \A id \in DOMAIN requests :
          requests'[id] # requests[id] =>
              /\ requests[id].status = "pending"
              /\ requests'[id].status # "pending"
              /\ Len(requests'[id].decisions) = 1
    /\ \A id \in DOMAIN approver :
          approver'[id] \notin {approver[id], "ok"} => requests' = requests

\* C9: oversight resolution is exactly-once.  In every reachable state each
\* request has at most one decision and submit_decision fails as specified
\* (C9_Resolved), and no step, the failed submit_decision of the approver
\* thread racing with a reviewer included, changes the status or the stored
\* decision of a request that is already resolved (C9_Step).
C9_ExactlyOnce == [](C9_Resolved) /\ [][C9_Step]_vars

\* C9 witness: the approver thread of a request lost the race against the
\* reviewer's reject and its submit_decision failed.
C9_Witness ==
    \E id \in DOMAIN requests :
        /\ approver[id] = "InvalidStateError"
        /\ requests[id].status = "rejected"
        /\ Len(requests[id].decisions) = 1

\* C10: timed-out requests are terminal.  Once the gate's wait has ended with
\* the request still pending, the request is TIMED_OUT and holds no decision.
C10_TimedOutTerminal ==
    \A t \in Traces :
        gate_status[t] = "pending" =>
            /\ requests[oversight_id[t]].status = "timed_out"
            /\ requests[oversight_id[t]].decisions = <<>>

\* The request trace t created at the gate.
own_request(t) == requests[oversight_id[t]]

\* The state part of C11: the ids request_oversight returned to different
\* runs are distinct and each names the request of its own run; every
\* pending request can be resolved, whatever the state of the others; and
\* the status a gate read as resolved, and the final content it chose, are
\* those of the run's own request and its own decision.
C11_Independent ==
    /\ \A t, u \in Traces :
          t # u /\ oversight_id[t] # 0 /\ oversight_id[u] # 0 =>
              oversight_id[t] # oversight_id[u]
    /\ \A t \in Traces :
          oversight_id[t] # 0 =>
              /\ oversight_id[t] \in DOMAIN requests
              /\ own_request(t).trace = t
              /\ own_request(t).content = empathetic_output[t]
    /\ \A id \in DOMAIN requests :
          requests[id].status = "pending" =>
              submit_outcome(requests, id, "reject", NoneText) = "ok"
    /\ \A t \in Traces :
          /\ gate_status[t] = "pending" =>
                final_content[t] = empathetic_output[t]
          /\ gate_status[t] \notin {Unset, "pending"} =>
                /\ own_request(t).status = gate_status[t]
                /\ final_content[t] =
                      resolve_final_content(empathetic_output[t],
                          own_request(t).status, own_request(t).decisions[1])

\* The step part of C11: a step that changes a stored request changes that
\* one request only, and changes no run's final content or result.
C11_Step ==
    \A id \in DOMAIN requests :
        requests'[id] # requests[id] =>
            /\ \A other \in DOMAIN requests :
                  other # id => requests'[other] = requests[other]
            /\ final_content' = final_content
            /\ result' = result

\* C11: with several runs of process_input escalating at the same time, the
\* request_oversight calls return distinct ids, the requests can be resolved
\* in any order, and a decision submitted for one request changes neither
\* the status or decision of another request nor the final response of
\* another trace.
C11_NoCrossContamination == [](C11_Independent) /\ [][C11_Step]_vars

\* C11 witness: two runs wait at the gate at the same time; the request
\* created later is already rejected while the earlier one is still
\* pending, and the run of the earlier one has not read its status yet.
C11_Witness ==
    \E t, u \in Traces :
        /\ pc[t] = "human_oversight_result"
        /\ pc[u] = "human_oversight_result"
        /\ oversight_id[t] < oversight_id[u]
        /\ own_request(t).status = "pending"
        /\ own_request(u).status = "rejected"

\* C12: the oversight gate never hangs.  Every run that has reached the
\* gate, about to create its request or waiting for its status, eventually
\* returns, whether or not the approver thread ever submits and whether or
\* not any decision is ever submitted for the request.
C12_GateNeverHangs ==
    \A t \in Traces :
        pc[t] \in {"human_oversight_request", "human_oversight_result"}
            ~> returned(t)

\* C12 witness: a run has left the gate and returned although its request
\* holds no decision and its approver thread has not submitted.
C12_Witness ==
    \E t \in Traces :
        /\ succeeded(t)
        /\ gate_status[t] = "pending"
        /\ own_request(t).decisions = <<>>
        /\ approver[oversight_id[t]] = "sleeping"

\* C13: the alignment score of the provenance record of a trace, as stored
\* and as get_provenance returns it, is the alignment_score the validation
\* stage of that trace returned, for every score the validator returns.
C13_ScoreCopied ==
    \A r \in DOMAIN provenance :
        /\ alignment_score[provenance[r].trace] # Unset
        /\ provenance[r].covenant_alignment_score =
              alignment_score[provenance[r].trace]
        /\ get_provenance(r).covenant_alignment_score =
              alignment_score[provenance[r].trace]

\* C13 witness: the store holds the records of two traces whose validation
\* returned different scores, one of them the score of an escalated run.
C13_Witness ==
    \E r, q \in DOMAIN provenance :
        /\ provenance[r].covenant_alignment_score = "0.41"
        /\ provenance[q].covenant_alignment_score = "0.92"
        /\ alignment_score[provenance[r].trace] = "0.41"
        /\ alignment_score[provenance[q].trace] = "0.92"

\* The entries of the gate and of the stages after it, for a run whose
\* validation returned needs_human_oversight = n.
GateEntries(n) ==
    IF n = "True" THEN <<"human_oversight_request", "human_oversight_result">>
    ELSE <<>>
StageOrder(n) ==
    FirstFive \o GateEntries(n)
    \o (IF log_interactions THEN <<"memory_storage">> ELSE <<>>)
    \o <<"provenance_record">>

\* The number of stage entries completed when collaborator call e raises.
CompletedBefore(e, n) ==
    CASE e = "empathy_engine.process_input" -> 0
      [] e \in {"generate_covenant_prompt", "generate_empathetic_prompt"} -> 1
      [] e = "generate_text" -> 2
      [] e = "process_output" -> 3
      [] e = "validate_response" -> 4
      [] e = "request_oversight" -> 5
      [] e = "get_oversight_status" -> 6
      [] e = "log_interaction" -> 5 + Len(GateEntries(n))
      [] e = "create_provenance_record" ->
            5 + Len(GateEntries(n)) + (IF log_interactions THEN 1 ELSE 0)

\* The number of entries of the stages before the stage of call e: the gate
\* is one stage, request_oversight and get_oversight_status are both its calls.
EntriesBeforeStageOf(e, n) ==
    IF e = "get_oversight_status" THEN Len(FirstFive)
    ELSE CompletedBefore(e, n)

C16_Prefix ==
    \A t \in Traces :
        /\ Len(steps[t]) <= Len(StageOrder(needs[t]))
        /\ steps[t] = SubSeq(StageOrder(needs[t]), 1, Len(steps[t]))
        /\ result[t].error # Unset =>
              /\ returned(t)
              /\ result[t].success = "False"
              /\ result[t].error \in CollaboratorCalls
              /\ steps[t] = SubSeq(StageOrder(needs[t]), 1,
                                   CompletedBefore(result[t].error, needs[t]))
              /\ records_of(t) = {}
              /\ CompletedBefore(result[t].error, needs[t]) <= 5 =>
                    requests_of(t) = {}

\* The step part of C16: the step in which a call raises writes no stage
\* entry and changes no provenance record and no oversight request; and a
\* run that has returned takes no further step.
C16_Step ==
    \A t \in Traces :
        /\ result'[t].error # result[t].error =>
              /\ steps' = steps
              /\ provenance' = provenance
              /\ requests' = requests
              /\ approver' = approver
        /\ returned(t) =>
              /\ pc'[t] = pc[t]
              /\ steps'[t] = steps[t]
              /\ result'[t] = result[t]
              /\ final_content'[t] = final_content[t]
              /\ \A r \in records_of(t) : provenance'[r] = provenance[r]

C17_NeverMutated ==
    [][provenance' # provenance =>
          \E t \in Traces :
              provenance' = Append(provenance, create_provenance_record(t))]_vars

\* C14: create_wallet produces a deterministic address.  Two services of
\* the same network that have both created a wallet for the same agent_id
\* hold the same address for it.
C14_DeterministicAddress ==
    \A a \in DOMAIN wallets \cap DOMAIN peer_wallets :
        wallets[a] = peer_wallets[a]

\* The positions of the ledger entries that name address as sender or as
\* recipient; all positions for address = None.
matching(address) ==
    {i \in DOMAIN ledger :
        \/ address = NoAddress
        \/ ledger[i].sender_address = address
        \/ ledger[i].recipient_address = address}

\* The state part of C15: the last ledger entry carries the sender, the
\* recipient and the amount of the last transfer that returned; and for
\* every address, and for None, list_transactions returns exactly the
\* matching entries, each once, in ledger order.
C15_Listed ==
    /\ last_call.op = "transfer" <=> ledger # <<>>
    /\ ledger # <<>> =>
          ledger[Len(ledger)] =
             [sender_address |-> last_call.sender,
              recipient_address |-> last_call.recipient,
              amount |-> to_float(last_call.amount).value]
    /\ \A address \in Addresses \cup {NoAddress} :
          LET listed == list_transactions(ledger, address) IN
          /\ Len(listed) = Cardinality(matching(address))
          /\ \A i \in matching(address) :
                listed[Cardinality({j \in matching(address) : j <= i})]
                   = ledger[i]

\* The step part of C15: a step that changes the ledger appends exactly one
\* entry and leaves the earlier ones as they were, in their order; and a
\* step of transfer that changes a balance appends an entry.
C15_Step ==
    /\ ledger' # ledger =>
          /\ Len(ledger') = Len(ledger) + 1
          /\ SubSeq(ledger', 1, Len(ledger)) = ledger
    /\ DOMAIN balances' = DOMAIN balances /\ balances' # balances =>
          Len(ledger') = Len(ledger) + 1

\* C15: every successful transfer is recorded on the ledger.  It appends
\* exactly one transaction carrying its sender, recipient and amount to the
\* end of the ledger; earlier entries are never removed, reordered or
\* changed; and list_transactions(address) returns exactly the entries
\* whose sender or recipient is that address, in ledger order, all entries
\* when address is None.
C15_LedgerAppendOnly == [](C15_Listed) /\ [][C15_Step]_vars

\* C15 witness: after three transfers an address is the recipient of one
\* entry it did not send and is not named by another entry, so that its
\* listing has fewer entries than the ledger.
C15_Witness ==
    \E address \in Addresses :
        /\ Len(ledger) = 3
        /\ \E i \in DOMAIN ledger :
              /\ ledger[i].recipient_address = address
              /\ ledger[i].sender_address # address
        /\ Len(list_transactions(ledger, address)) = 2

\* The sum of the values of dict over the keys of keys.
RECURSIVE sum_over(_, _)
sum_over(dict, keys) ==
    IF keys = {} THEN 0
    ELSE LET k == CHOOSE key \in keys : TRUE
         IN  dict[k] + sum_over(dict, keys \ {k})

\* C18: transfers conserve funds.  After any sequence of create_wallet and
\* transfer calls the sum of all balances equals the sum of the starting
\* balances of the created wallets.
C18_FundsConserved ==
    sum_over(balances, DOMAIN balances)
       = sum_over(opening_balances, DOMAIN opening_balances)

\* C19: no overdraft.  If every wallet was created with a non-negative
\* starting balance then, after any sequence of create_wallet and transfer
\* calls, every balance is non-negative.
C19_NoOverdraft ==
    (\A a \in DOMAIN opening_balances : opening_balances[a] >= 0) =>
        \A a \in DOMAIN balances : balances[a] >= 0

\* C19 witness: every wallet was created with a non-negative balance, and a
\* wallet created empty has sent on all it received, so that any further
\* transfer from it would overdraw it.
C19_Witness ==
    /\ \A a \in DOMAIN opening_balances : opening_balances[a] >= 0
    /\ \E a \in DOMAIN balances :
          /\ opening_balances[a] = 0
          /\ balances[a] = 0
          /\ \E i \in DOMAIN ledger :
                /\ ledger[i].sender_address = a
                /\ ledger[i].recipient_address # a

\* What the claim says makes transfer(sender, recipient, amount) fail: the
\* amount is not a finite positive number, an address is unknown, or the
\* sender's balance is below the amount.
must_be_rejected(sender, recipient, amount) ==
    \/ amount.kind \notin {"number", "numeric text"}
    \/ amount.value <= 0
    \/ sender \notin DOMAIN balances
    \/ recipient \notin DOMAIN balances
    \/ balances[sender] < amount.value

\* The state part of C20: on the balances of every reachable state, a
\* transfer that must be rejected raises ValueError with one of the five
\* messages and leaves the balances as they are, and every other transfer is
\* accepted.
C20_Rejected ==
    \A s, r \in Addresses, amount \in AmountInputs :
        LET outcome == transfer_outcome(balances, s, r, amount) IN
        IF must_be_rejected(s, r, amount)
        THEN /\ outcome \in {"Transfer amount must be a finite number",
                              "Transfer amount must be positive",
                              "Unknown sender address",
                              "Unknown recipient address",
                              "Insufficient funds"}
             /\ transfer_balances(balances, s, r, amount) = balances
        ELSE outcome = "ok"

\* The step part of C20: a step that does not append to the ledger changes
\* the balance of no existing address, and a step that appends an entry was
\* a transfer that did not have to be rejected.
C20_Step ==
    /\ ledger' = ledger =>
          \A a \in DOMAIN balances : balances'[a] = balances[a]
    /\ ledger' # ledger =>
          LET tx == ledger'[Len(ledger')] IN
          ~must_be_rejected(tx.sender_address, tx.recipient_address,
                            Number(tx.amount))

AgentIds ==
    Agents \cup {"agent-a:3f", "agent-a:c4", "agent-a:3f:annaban-testnet",
                 "agent-", ""}

\* The state part of C21: the wallets of distinct agents have distinct
\* addresses, every wallet has its own balance entry and there is no other;
\* and on one network create_wallet gives distinct agent ids distinct
\* addresses whatever tokens are drawn, for ids that contain the separator
\* of the seed as well.
C21_OwnAddress ==
    /\ \A a, b \in DOMAIN wallets : a # b => wallets[a] # wallets[b]
    /\ DOMAIN balances = {wallets[a] : a \in DOMAIN wallets}
    /\ Cardinality(DOMAIN balances) = Cardinality(DOMAIN wallets)
    /\ \A a, b \in AgentIds, k, l \in TokenHexes :
          a # b => address_of(a, k, network) # address_of(b, l, network)

\* The step part of C21: no step changes the address of an agent that has
\* a wallet or removes its wallet, and a step that is not a transfer, a
\* call of create_wallet with any starting balance in particular, changes
\* the balance of no existing address.
C21_Step ==
    /\ \A a \in DOMAIN wallets :
          a \in DOMAIN wallets' /\ wallets'[a] = wallets[a]
    /\ ledger' = ledger =>
          \A address \in DOMAIN balances :
              /\ address \in DOMAIN balances'
              /\ balances'[address] = balances[address]

\* C21: create_wallet is idempotent per agent.  A second call for an
\* agent_id that already has a wallet returns the existing wallet with the
\* same address and leaves every balance unchanged, whatever starting
\* balance is passed; and the wallets of distinct agents never share an
\* address, so creating a wallet never overwrites the balance of another.
C21_Idempotent == [](C21_OwnAddress) /\ [][C21_Step]_vars

\* C21 witness: both agents have a wallet, created with the same token, and
\* a transfer has moved the balance of one of them away from every starting
\* balance, so that a second create_wallet for it, with any starting
\* balance, would show if it were not idempotent.
C21_Witness ==
    \E a, b \in DOMAIN wallets, k \in TokenHexes :
        /\ a # b
        /\ wallets[a] = address_of(a, k, network)
        /\ wallets[b] = address_of(b, k, network)
        /\ balances[wallets[a]] \notin StartingBalances
        /\ ledger # <<>>

====
